---- MODULE Spec2Model ----
(***************************************************************************)
(* A model of beetsplug/replaygain.py: the ReplayGain plugin (the          *)
(* orchestrator), the CommandBackend driving mp3gain/aacgain, and the      *)
(* GStreamerBackend with its event loop.                                   *)
(*                                                                         *)
(* Floats are fixed-point numbers in units of 1/32768, so the float 0.5 is *)
(* the integer 16384 and 0.0 is 0.  Python's None is the empty tuple and a *)
(* value v held by an optional field is <<v>>.                             *)
(* A record is always written with its fields in the order of their first  *)
(* appearance in this module, the order TLC keeps them in, so that no      *)
(* worker ever reorders the fields of a record another worker reads.       *)
(***************************************************************************)
EXTENDS Integers, Sequences, FiniteSets, TLC

\* Bounds of the model.
NumTracks == 2

\* Program constants.
PeakScale == 32768
ReferenceLevel == 89

Tracks == 1..NumTracks
Formats == {"MP3", "AAC", "FLAC"}

None == << >>
Some(v) == <<v>>

\* Python truthiness of an optional float: None and 0.0 are both false.
Truthy(x) == x # None /\ x # Some(0)

Gain(g, p) == [gain |-> g, peak |-> p]

VARIABLES
    overwrite,      \* ReplayGainPlugin.overwrite
    automatic,      \* ReplayGainPlugin.automatic
    backend_name,   \* the configured backend: "command" or "gstreamer"
    command,        \* CommandBackend.command, the resolved executable
    format,         \* item.format of every track
    album_items,    \* album.items(): the album's tracks in album order
    config_command, \* config["command"], "" when not set
    installed,      \* the executables that exist on this machine
    targetlevel,    \* config["targetlevel"], a float
    gain_offset,    \* CommandBackend.gain_offset
    rg_track_gain,  \* item.rg_track_gain of every track
    rg_track_peak,  \* item.rg_track_peak of every track
    rg_album_gain,  \* item.rg_album_gain of every track
    rg_album_peak,  \* item.rg_album_peak of every track
    album_rg_gain,  \* album.rg_album_gain
    album_rg_peak,  \* album.rg_album_peak
    files_,         \* GStreamerBackend._files, the pending-files queue
    file_,          \* GStreamerBackend._file, the current file (0: not set)
    file_tags,      \* GStreamerBackend._file_tags (None: attribute not set)
    pipe_state,     \* state of GStreamerBackend._pipe
    call,           \* the call in progress or last made
    env,            \* what the analysis tool measures and how it answers
    ops,            \* what that call has done so far, in order
    ret,            \* what the backend returned to that call
    pc              \* "idle", "returned", or where the blocked call stands

libvars == <<rg_track_gain, rg_track_peak, rg_album_gain, rg_album_peak,
             album_rg_gain, album_rg_peak>>
cfgvars == <<overwrite, automatic, backend_name, command, format, album_items,
             config_command, installed, targetlevel, gain_offset>>
gstvars == <<files_, file_, file_tags, pipe_state>>
vars == <<cfgvars, libvars, gstvars, call, env, ops, ret, pc>>

Min(a, b) == IF a < b THEN a ELSE b

\* One entry of the log of a call: what was done, and to which track.
Ev(op, arg) == [op |-> op, arg |-> arg]

\* What a backend hands back: a list, None, an AlbumGain or an exception.
RetList(s) == [kind |-> "list", gains |-> s, album_gain |-> None]
RetNone == [kind |-> "none", gains |-> << >>, album_gain |-> None]
RetRaise == [kind |-> "raise", gains |-> << >>, album_gain |-> None]
RetAlbum(g, s) == [kind |-> "album", gains |-> s, album_gain |-> g]
NoRet == [kind |-> "nocall", gains |-> << >>, album_gain |-> None]

(***************************************************************************)
(* The external tool (mp3gain / aacgain).  A text field of its output is   *)
(* the number it denotes, a gain in half dB ("3.5" is 7); a field that is  *)
(* no number is NotANumber.  The text is the sequence of its lines, as     *)
(* text.split('\n') gives them, each line the sequence of its tab fields.  *)
(***************************************************************************)
Commands == {"mp3gain", "aacgain", "/opt/rg/gain"}

\* The substring test `name in self.command`.
InCommand(name, cmd) == cmd = name

GainTexts == <<0, 7, -3, 2>>
PeakRaws == <<16384, 0, 32768, 8192>>
Variants == 0..1
Shapes == {"full", "extra", "short", "cut"}
Statuses == {"ok", "exit", "encode"}
Envs == {e \in [k : Variants, shape : Shapes, status : Statuses] :
            /\ e.status # "ok" => (e.k = 0 /\ e.shape = "full")
            /\ e.shape \in {"short", "cut"} => e.k = 0}

NotANumber == 0 - 1000000
HeaderLine == [i \in 1..6 |-> NotANumber]
EmptyLine == <<NotANumber>>

\* What the analysis finds for track t (0: the whole album) in variant k.
MeasuredGainText(t, k) == GainTexts[((t + 2 * k) % 4) + 1]
MeasuredPeakRaw(t, k) == PeakRaws[((t + 2 * k) % 4) + 1]
DataLine(t, k) == <<t, 0, MeasuredGainText(t, k), MeasuredPeakRaw(t, k), 0, 0>>

\* The tool's answer: a header, a line per file in argument order and, in
\* album mode, the aggregate line ("full"); with a further line ("extra"),
\* without its last line and final newline ("short"), or without its last
\* line ("cut").
ToolOutput(items, is_album, e) ==
    LET data == [i \in 1..Len(items) |-> DataLine(items[i], e.k)]
        body == <<HeaderLine>> \o data \o
                (IF is_album THEN <<DataLine(0, e.k)>> ELSE << >>)
    IN  CASE e.shape = "full" -> body \o <<EmptyLine>>
          [] e.shape = "extra" -> body \o <<DataLine(0, e.k), EmptyLine>>
          [] e.shape = "short" -> SubSeq(body, 1, Len(body) - 1)
          [] e.shape = "cut" -> SubSeq(body, 1, Len(body) - 1) \o <<EmptyLine>>

\* call(args): the output, or ReplayGainError on a non-zero exit or an
\* argument that fails to encode.
call_(items, is_album, e) ==
    IF e.status = "ok"
    THEN [error |-> FALSE, output |-> ToolOutput(items, is_album, e)]
    ELSE [error |-> TRUE, output |-> << >>]

(***************************************************************************)
(* CommandBackend                                                          *)
(***************************************************************************)
FloatUnit == PeakScale
\* float(text) of a gain field, and of an integer field.
FloatOfGainText(h) == h * (FloatUnit \div 2)
FloatOfInt(n) == n * FloatUnit

\* int(x) of a float: the fraction is cut off, towards zero.
IntOfFloat(x) ==
    IF x >= 0 THEN x \div FloatUnit ELSE 0 - ((0 - x) \div FloatUnit)

\* The offset taken for the target level itself.
gain_offset_unshifted(level) == IntOfFloat(level)

\* int(target_level - 89)
gain_offset_of(level) == IntOfFloat(level - FloatOfInt(ReferenceLevel))

\* The names __init__ tries when no command is configured, in its order.
Candidates == <<"mp3gain", "aacgain">>

\* The loop over the candidates from the i-th on, self.command being cmd:
\* call([cmd, '-v']) raises OSError for a name that is not installed.
RECURSIVE candidate_loop(_, _, _)
candidate_loop(cmd, found, i) ==
    IF i > Len(Candidates) THEN cmd
    ELSE candidate_loop(IF Candidates[i] \in found THEN Candidates[i] ELSE cmd,
                        found, i + 1)

\* CommandBackend.__init__: the command it settles on, or UserError.
CommandBackend_init(cfg_command, found, level) ==
    LET cmd == IF cfg_command # "" THEN cfg_command
               ELSE candidate_loop(cfg_command, found, 1)
    IN  IF cfg_command # "" /\ cfg_command \notin found
        THEN [command |-> cmd, gain_offset |-> 0, error |-> TRUE]
        ELSE IF cmd = ""
        THEN [command |-> cmd, gain_offset |-> 0, error |-> TRUE]
        ELSE [command |-> cmd, gain_offset |-> gain_offset_of(level),
              error |-> FALSE]

LineParses(parts) ==
    /\ Len(parts) >= 6
    /\ \A j \in 2..6 : parts[j] # NotANumber

\* parse_tool_output taking the header for the first file's line.
parse_tool_output_from_header(text, num_lines) ==
    LET lines == SubSeq(text, 1, Min(num_lines, Len(text)))
    IN  IF \E i \in 1..Len(lines) : ~LineParses(lines[i])
        THEN RetRaise
        ELSE RetList([i \in 1..Len(lines) |->
                 Gain(FloatOfGainText(lines[i][3]),
                      FloatOfInt(lines[i][4]) \div PeakScale)])

\* parse_tool_output reading one line more than asked for.
parse_tool_output_one_more(text, num_lines) ==
    LET lines == SubSeq(text, 2, Min(num_lines + 2, Len(text)))
    IN  IF \E i \in 1..Len(lines) : ~LineParses(lines[i])
        THEN RetRaise
        ELSE RetList([i \in 1..Len(lines) |->
                 Gain(FloatOfGainText(lines[i][3]),
                      FloatOfInt(lines[i][4]) \div PeakScale)])

parse_tool_output(text, num_lines) ==
    LET lines == SubSeq(text, 2, Min(num_lines + 1, Len(text)))
    IN  IF \E i \in 1..Len(lines) : ~LineParses(lines[i])
        THEN RetRaise
        ELSE RetList([i \in 1..Len(lines) |->
                 Gain(FloatOfGainText(lines[i][3]),
                      FloatOfInt(lines[i][4]) \div PeakScale)])

\* format_supported with no test for aacgain.
format_supported_mp3gain_only(item) ==
    IF InCommand("mp3gain", command) /\ format[item] # "MP3" THEN FALSE
    ELSE TRUE

format_supported(item) ==
    IF InCommand("mp3gain", command) /\ format[item] # "MP3" THEN FALSE
    ELSE IF InCommand("aacgain", command) /\ format[item] \notin {"MP3", "AAC"}
         THEN FALSE
         ELSE TRUE

\* The result and the log of compute_gain: the -d argument of the command
\* line, the run of the tool, the warning.
compute_gain(items, is_album, e) ==
    IF Len(items) = 0 THEN [ret |-> RetList(<< >>), ev |-> << >>]
    ELSE LET out == call_(items, is_album, e)
         IN  IF out.error
             THEN [ret |-> RetNone,
                   ev |-> <<Ev("-d", gain_offset), Ev("exec", Len(items)),
                            Ev("warn", 0)>>]
             ELSE [ret |-> parse_tool_output(out.output,
                               Len(items) + (IF is_album THEN 1 ELSE 0)),
                   ev |-> <<Ev("-d", gain_offset), Ev("exec", Len(items))>>]

supported_items(items) == SelectSeq(items, format_supported)

Command_compute_track_gain(items, e) ==
    compute_gain(supported_items(items), FALSE, e)

Command_compute_album_gain(e) ==
    IF Len(supported_items(album_items)) # Len(album_items)
    THEN [ret |-> RetAlbum(None, << >>), ev |-> << >>]
    ELSE LET o == compute_gain(supported_items(album_items), TRUE, e)
             out == o.ret.gains
         IN  \* output[-1] raises on None and on the empty list
             IF o.ret.kind # "list" \/ Len(out) = 0
             THEN [ret |-> RetRaise, ev |-> o.ev]
             ELSE [ret |-> RetAlbum(Some(out[Len(out)]),
                                    SubSeq(out, 1, Len(out) - 1)),
                   ev |-> o.ev]

(***************************************************************************)
(* The library's records, as one value the handlers transform.             *)
(***************************************************************************)
Lib == [tg |-> rg_track_gain, tp |-> rg_track_peak,
        ag |-> rg_album_gain, ap |-> rg_album_peak,
        alg |-> album_rg_gain, alp |-> album_rg_peak]

InAlbum(t) == \E i \in 1..Len(album_items) : album_items[i] = t

\* album.store(): the album's fields are written to each of its tracks.
Album_store(lib) ==
    [lib EXCEPT !.ag = [t \in Tracks |-> IF InAlbum(t) THEN lib.alg ELSE @[t]],
                !.ap = [t \in Tracks |-> IF InAlbum(t) THEN lib.alp ELSE @[t]]]

(***************************************************************************)
(* ReplayGainPlugin                                                        *)
(***************************************************************************)
track_requires_gain(item) ==
    overwrite \/ (~Truthy(rg_track_gain[item]) \/ ~Truthy(rg_track_peak[item]))

album_requires_gain ==
    overwrite \/ \E i \in 1..Len(album_items) :
                    \/ ~Truthy(rg_album_gain[album_items[i]])
                    \/ ~Truthy(rg_album_peak[album_items[i]])

store_track_gain(lib, item, track_gain) ==
    [lib EXCEPT !.tg[item] = Some(track_gain.gain),
                !.tp[item] = Some(track_gain.peak)]

store_album_gain(lib, album_gain) ==
    Album_store([lib EXCEPT !.alg = Some(album_gain.gain),
                            !.alp = Some(album_gain.peak)])

\* A round of the loop that writes the file before it stores.
write_and_store(acc, item, track_gain, write) ==
    [ev |-> acc.ev \o (IF write THEN <<Ev("write", item)>> ELSE << >>)
            \o <<Ev("store_track", item)>>,
     lib |-> store_track_gain(acc.lib, item, track_gain)]

\* One round of handle_album's loop: store, then write if asked to.
store_and_write(acc, item, track_gain, write) ==
    [ev |-> acc.ev \o <<Ev("store_track", item)>> \o
            (IF write THEN <<Ev("write", item)>> ELSE << >>),
     lib |-> store_track_gain(acc.lib, item, track_gain)]

\* The loop over izip(album.items(), album_gain.track_gains), from pair i.
RECURSIVE album_loop(_, _, _, _)
album_loop(acc, track_gains, write, i) ==
    IF i > Min(Len(album_items), Len(track_gains)) THEN acc
    ELSE album_loop(store_and_write(acc, album_items[i], track_gains[i], write),
                    track_gains, write, i + 1)

\* handle_album checking the count after it has stored the album's gain.
handle_album_after_late_check(lib, write, r) ==
    IF r.kind # "album" THEN [ev |-> <<Ev("raise", 0)>>, lib |-> lib]
    ELSE IF r.album_gain = None
    THEN [ev |-> <<Ev("raise", 0)>>, lib |-> lib]
    ELSE IF Len(r.gains) # Len(album_items)
    THEN [ev |-> <<Ev("store_album", 0), Ev("warn", 0)>>,
          lib |-> store_album_gain(lib, r.album_gain[1])]
    ELSE album_loop([ev |-> <<Ev("store_album", 0)>>,
                     lib |-> store_album_gain(lib, r.album_gain[1])],
                    r.gains, write, 1)

\* handle_album from the backend's answer r on.
handle_album_after(lib, write, r) ==
    IF r.kind # "album" THEN [ev |-> <<Ev("raise", 0)>>, lib |-> lib]
    ELSE IF Len(r.gains) # Len(album_items)
    THEN [ev |-> <<Ev("warn", 0)>>, lib |-> lib]
    ELSE IF r.album_gain = None
    THEN [ev |-> <<Ev("raise", 0)>>, lib |-> lib]
    ELSE album_loop([ev |-> <<Ev("store_album", 0)>>,
                     lib |-> store_album_gain(lib, r.album_gain[1])],
                    r.gains, write, 1)

\* handle_track warning only on more than one result: track_gains[0]
\* raises on the empty list.
handle_track_after_many_only(lib, item, write, r) ==
    IF r.kind # "list" THEN [ev |-> <<Ev("raise", 0)>>, lib |-> lib]
    ELSE IF Len(r.gains) > 1 THEN [ev |-> <<Ev("warn", 0)>>, lib |-> lib]
    ELSE IF Len(r.gains) = 0 THEN [ev |-> <<Ev("raise", 0)>>, lib |-> lib]
    ELSE [ev |-> <<Ev("store_track", item)>> \o
                 (IF write THEN <<Ev("write", item)>> ELSE << >>),
          lib |-> store_track_gain(lib, item, r.gains[1])]

\* handle_track from the backend's answer r on; len(None) raises.
handle_track_after(lib, item, write, r) ==
    IF r.kind # "list" THEN [ev |-> <<Ev("raise", 0)>>, lib |-> lib]
    ELSE IF Len(r.gains) # 1 THEN [ev |-> <<Ev("warn", 0)>>, lib |-> lib]
    ELSE [ev |-> <<Ev("store_track", item)>> \o
                 (IF write THEN <<Ev("write", item)>> ELSE << >>),
          lib |-> store_track_gain(lib, item, r.gains[1])]

(***************************************************************************)
(* GStreamerBackend.  _file_tags is a defaultdict: a function from the     *)
(* files it has an entry for to their tags, each a function from tag       *)
(* names to doubles.                                                       *)
(***************************************************************************)
NoTags == [n \in {} |-> 0]

\* What the analysis finds for track t (0: the whole album), as floats.
Analysis(t, k) ==
    Gain(FloatOfGainText(MeasuredGainText(t, k)),
         FloatOfInt(MeasuredPeakRaw(t, k)) \div PeakScale)

TagKinds == {"track", "album", "codec"}

\* The tag lists a message can carry while track t plays.
TagList(t, k, kind) ==
    CASE kind = "track" ->
           [TRACK_GAIN |-> Analysis(t, k).gain, TRACK_PEAK |-> Analysis(t, k).peak,
            REFERENCE_LEVEL |-> FloatOfInt(ReferenceLevel)]
      [] kind = "album" ->
           [TRACK_GAIN |-> Analysis(t, k).gain, TRACK_PEAK |-> Analysis(t, k).peak,
            REFERENCE_LEVEL |-> FloatOfInt(ReferenceLevel),
            ALBUM_GAIN |-> Analysis(0, k).gain, ALBUM_PEAK |-> Analysis(0, k).peak]
      [] kind = "codec" -> [AUDIO_CODEC |-> 0]

HandledTags == {"TRACK_GAIN", "TRACK_PEAK", "ALBUM_GAIN", "ALBUM_PEAK",
                "REFERENCE_LEVEL"}

\* _on_tag: every handled tag of the list is recorded for the current file.
on_tag(tags, file, taglist) ==
    LET new == DOMAIN taglist \cap HandledTags
        old == IF file \in DOMAIN tags THEN tags[file] ELSE NoTags
    IN  IF new = {} THEN tags
        ELSE [f \in DOMAIN tags \cup {file} |->
                 IF f = file
                 THEN [n \in DOMAIN old \cup new |->
                          IF n \in new THEN taglist[n] ELSE old[n]]
                 ELSE tags[f]]

\* compute with no guard.
batch_never_pending == FALSE

\* compute's guard against a batch still in flight.
batch_pending == Len(files_) # 0

HasTrackTags(tags, item) ==
    /\ item \in DOMAIN tags
    /\ {"TRACK_GAIN", "TRACK_PEAK"} \subseteq DOMAIN tags[item]

track_gains_of(tags, items) ==
    [i \in 1..Len(items) |->
        Gain(tags[items[i]]["TRACK_GAIN"], tags[items[i]]["TRACK_PEAK"])]

\* compute_track_gain with no count check, leaving out the untagged files.
GStreamer_track_result_partial(items) ==
    IF file_tags = None THEN RetRaise
    ELSE LET tags == file_tags[1]
             Tagged(item) == HasTrackTags(tags, item)
         IN  RetList(track_gains_of(tags, SelectSeq(items, Tagged)))

\* compute_track_gain from the return of compute on.
GStreamer_track_result(items) ==
    IF file_tags = None THEN RetRaise
    ELSE LET tags == file_tags[1]
         IN  IF Cardinality(DOMAIN tags) # Len(items) THEN RetRaise
             ELSE IF \E i \in 1..Len(items) : ~HasTrackTags(tags, items[i])
             THEN RetRaise
             ELSE RetList(track_gains_of(tags, items))

\* compute_album_gain from the return of compute on.
GStreamer_album_result(items) ==
    IF file_tags = None THEN RetRaise
    ELSE LET tags == file_tags[1]
         IN  IF Cardinality(DOMAIN tags) # Len(items) THEN RetRaise
             ELSE IF \E i \in 1..Len(items) : ~HasTrackTags(tags, items[i])
             THEN RetRaise
             ELSE IF Len(items) = 0 THEN RetRaise
             ELSE LET last_tags == tags[items[Len(items)]]
                  IN  IF ~({"ALBUM_GAIN", "ALBUM_PEAK"} \subseteq DOMAIN last_tags)
                      THEN RetRaise
                      ELSE RetAlbum(Some(Gain(last_tags["ALBUM_GAIN"],
                                              last_tags["ALBUM_PEAK"])),
                                    track_gains_of(tags, items))

(***************************************************************************)
(* The calls.  A call is [entry, op, items, write]: who made it ("import": *)
(* the import stage, "command": the replaygain subcommand, "api": a caller *)
(* of the backend), the routine, its tracks and its write flag.            *)
(***************************************************************************)
Call(entry, op, items, write) ==
    [op |-> op, items |-> items, write |-> write, entry |-> entry]

IsAlbumOp(op) == op \in {"handle_album", "compute_album_gain"}

\* The handler returns before it asks the backend.
Skips(c) ==
    \/ c.entry = "import" /\ ~automatic
    \/ c.op = "handle_track" /\ ~track_requires_gain(c.items[1])
    \/ c.op = "handle_album" /\ ~album_requires_gain

SkipLog(c) ==
    IF c.entry = "import" /\ ~automatic THEN << >> ELSE <<Ev("skip", 0)>>

\* The handler from the backend's answer r on.
After(c, r) ==
    CASE c.op = "handle_track" ->
           handle_track_after(Lib, c.items[1], c.write, r)
      [] c.op = "handle_album" -> handle_album_after(Lib, c.write, r)
      [] OTHER -> [ev |-> IF r.kind = "raise" THEN <<Ev("raise", 0)>> ELSE << >>,
                   lib |-> Lib]

SetLib(lib) ==
    /\ rg_track_gain' = lib.tg
    /\ rg_track_peak' = lib.tp
    /\ rg_album_gain' = lib.ag
    /\ rg_album_peak' = lib.ap
    /\ album_rg_gain' = lib.alg
    /\ album_rg_peak' = lib.alp

\* The backend has answered r, having logged evs: the handler finishes.
Complete(c, r, evs) ==
    /\ LET a == After(c, r)
       IN  /\ SetLib(a.lib)
           /\ ops' = evs \o a.ev
    /\ ret' = r
    /\ pc' = "returned"

CommandAnswer(c, e) ==
    IF IsAlbumOp(c.op) THEN Command_compute_album_gain(e)
    ELSE Command_compute_track_gain(c.items, e)

GStreamerResult(c) ==
    IF IsAlbumOp(c.op) THEN GStreamer_album_result(c.items)
    ELSE GStreamer_track_result(c.items)

\* GStreamerBackend.compute, up to the start of the main loop.
GStreamerCompute(c) ==
    IF batch_pending
    THEN /\ Complete(c, RetRaise, <<Ev("compute", Len(c.items))>>)
         /\ UNCHANGED gstvars
    ELSE IF Len(c.items) = 0
    THEN /\ files_' = << >>
         /\ UNCHANGED <<file_, file_tags, pipe_state>>
         /\ Complete(c, GStreamerResult(c), <<Ev("compute", 0)>>)
    ELSE /\ file_tags' = Some(NoTags)
         /\ file_' = Head(c.items)
         /\ files_' = Tail(c.items)
         /\ pipe_state' = "PLAYING"
         /\ pc' = "loop"
         /\ ops' = <<Ev("compute", Len(c.items)), Ev("play", Head(c.items))>>
         /\ ret' = NoRet
         /\ UNCHANGED libvars

NoCall == Call("none", "none", << >>, FALSE)

\* A call begins; with the command backend it also ends.  The caller makes
\* it when no call is under way: when the last call has been taken note
\* of, or just after that same call has returned.
Begin(c, e) ==
    /\ pc = "idle" \/ (pc = "returned" /\ c = call)
    /\ call' = c
    /\ env' = e
    /\ UNCHANGED cfgvars
    /\ IF Skips(c)
       THEN /\ ops' = SkipLog(c)
            /\ ret' = NoRet
            /\ pc' = "returned"
            /\ UNCHANGED <<libvars, gstvars>>
       ELSE IF backend_name = "command"
       THEN /\ LET b == CommandAnswer(c, e)
               IN  Complete(c, b.ret, <<Ev("compute", Len(c.items))>> \o b.ev)
            /\ UNCHANGED gstvars
       ELSE GStreamerCompute(c)

\* What the analysis measures and how the tool answers, for a call that
\* asks the backend; the streaming backend has no tool output.
DefaultEnv == [k |-> 0, shape |-> "full", status |-> "ok"]
CallEnvs(c) ==
    IF Skips(c) THEN {DefaultEnv}
    ELSE {e \in Envs : backend_name = "gstreamer" =>
                           (e.status = "ok" /\ e.shape = "full")}

\* A call is made, whatever the analysis then finds.
BeginAny(c) == \E e \in CallEnvs(c) : Begin(c, e)

\* imported handing write=True to the handlers.
imported_writing ==
    \/ BeginAny(Call("import", "handle_album", album_items, TRUE))
    \/ \E t \in Tracks : BeginAny(Call("import", "handle_track", <<t>>, TRUE))

\* ReplayGainPlugin.imported; Skips holds its test of self.automatic.
imported ==
    \/ BeginAny(Call("import", "handle_album", album_items, FALSE))
    \/ \E t \in Tracks : BeginAny(Call("import", "handle_track", <<t>>, FALSE))

\* func of ReplayGainPlugin.commands, one round of either loop.
func ==
    \E write \in BOOLEAN :
        \/ BeginAny(Call("command", "handle_album", album_items, write))
        \/ \E t \in Tracks : BeginAny(Call("command", "handle_track", <<t>>, write))

ItemLists == {album_items, << >>, <<1>>}

\* A caller of the backend's compute_track_gain / compute_album_gain.
compute_call ==
    \/ \E items \in ItemLists :
          BeginAny(Call("api", "compute_track_gain", items, FALSE))
    \/ BeginAny(Call("api", "compute_album_gain", album_items, FALSE))

\* The main loop runs and the pipeline plays a file: only then does the
\* bus deliver that file's messages.
Playing == pc = "loop" /\ pipe_state = "PLAYING"

\* GStreamerBackend._on_tag
_on_tag ==
    /\ Playing
    /\ \E kind \in TagKinds :
          \* the analyser posts the album's tags with the last of num-tracks
          /\ kind = "album" => (IsAlbumOp(call.op) /\ Len(files_) = 0)
          /\ file_tags' = Some(on_tag(file_tags[1], file_,
                                      TagList(file_, env.k, kind)))
    /\ UNCHANGED <<cfgvars, libvars, files_, file_, pipe_state, call, env, ops,
                   ret, pc>>

\* _on_eos quitting the loop whatever is left in the queue.
_on_eos_always_quits ==
    /\ Playing
    /\ pipe_state' = "NULL"
    /\ pc' = "quit"
    /\ UNCHANGED <<cfgvars, libvars, files_, file_, file_tags, call, env, ops,
                   ret>>

\* GStreamerBackend._on_eos, with _set_next_file and _set_file
_on_eos ==
    /\ Playing
    /\ IF Len(files_) = 0
       THEN /\ pipe_state' = "NULL"
            /\ pc' = "quit"
            /\ UNCHANGED <<files_, file_, ops>>
       ELSE /\ file_' = Head(files_)
            /\ files_' = Tail(files_)
            /\ pipe_state' = "PLAYING"
            /\ pc' = "loop"
            /\ ops' = Append(ops, Ev("play", Head(files_)))
    /\ UNCHANGED <<cfgvars, libvars, file_tags, call, env, ret>>

\* _on_error tearing the pipeline down without quitting the loop.
_on_error_without_quit ==
    /\ Playing
    /\ pipe_state' = "NULL"
    /\ ops' = Append(ops, Ev("error", file_))
    /\ UNCHANGED <<cfgvars, libvars, files_, file_, file_tags, call, env, ret,
                   pc>>

\* GStreamerBackend._on_error
_on_error ==
    /\ Playing
    /\ pipe_state' = "NULL"
    /\ pc' = "quit"
    /\ ops' = Append(ops, Ev("error", file_))
    /\ UNCHANGED <<cfgvars, libvars, files_, file_, file_tags, call, env, ret>>

\* The main loop has quit: compute returns and the call goes on.
loop_return ==
    /\ pc = "quit"
    /\ Complete(call, GStreamerResult(call), ops)
    /\ UNCHANGED <<cfgvars, gstvars, call, env>>

\* The caller has taken note of what the last call did and goes on.
next_call ==
    /\ pc = "returned"
    /\ pc' = "idle"
    /\ call' = NoCall
    /\ env' = DefaultEnv
    /\ ops' = << >>
    /\ ret' = NoRet
    /\ UNCHANGED <<cfgvars, libvars, gstvars>>

\* CommandBackend.__init__ is run on the configuration.
construct ==
    /\ pc = "new"
    /\ LET b == CommandBackend_init(config_command, installed, targetlevel)
       IN  /\ command' = b.command
           /\ gain_offset' = b.gain_offset
           /\ pc' = IF b.error THEN "failed" ELSE "idle"
    /\ UNCHANGED <<overwrite, automatic, backend_name, format, album_items,
                   config_command, installed, targetlevel, libvars, gstvars,
                   call, env, ops, ret>>

(***************************************************************************)
(* The states after construction.                                          *)
(***************************************************************************)
\* initialize_config's targetlevel, 89
DefaultTargetLevel == FloatOfInt(ReferenceLevel)

AlbumOrder == [i \in 1..NumTracks |-> NumTracks + 1 - i]
Albums == {<< >>, <<NumTracks>>, AlbumOrder}
FormatOrder == <<"MP3", "AAC", "FLAC">>
FormatAssignments ==
    {[t \in Tracks |-> FormatOrder[((t + s) % 3) + 1]] : s \in 0..2}
        \cup {[t \in Tracks |-> "MP3"]}
\* rg_album_gain of the tracks as imported: unset or 0.0 on all, or 0.5 on
\* the album's first track alone.
AlbumTaggings ==
    {[t \in Tracks |-> v] : v \in {None, Some(0)}}
        \cup {[t \in Tracks |-> IF t = NumTracks
                                 THEN Some(FloatOfInt(1) \div 2) ELSE None]}

Init ==
    /\ overwrite \in BOOLEAN
    /\ automatic \in BOOLEAN
    /\ backend_name \in {"command", "gstreamer"}
    /\ command \in IF backend_name = "command" THEN Commands ELSE {""}
    /\ format \in IF command \in {"mp3gain", "aacgain"}
                  THEN FormatAssignments ELSE {[t \in Tracks |-> "MP3"]}
    /\ album_items \in Albums
    /\ config_command = (IF command \in {"mp3gain", "aacgain"} THEN "" ELSE command)
    /\ installed = (IF command = "" THEN {} ELSE {command})
    /\ targetlevel = DefaultTargetLevel
    /\ gain_offset = 0
    /\ rg_track_gain = [t \in Tracks |-> None]
    /\ rg_track_peak = [t \in Tracks |-> None]
    /\ rg_album_gain \in AlbumTaggings
    /\ rg_album_peak = [t \in Tracks |->
                           IF rg_album_gain[t] = None THEN None
                           ELSE Some(FloatOfInt(1) \div 2)]
    /\ album_rg_gain = None
    /\ album_rg_peak = None
    /\ files_ = << >>
    /\ file_ = 0
    /\ file_tags = None
    /\ pipe_state = "NULL"
    /\ call = NoCall
    /\ env = DefaultEnv
    /\ ops = << >>
    /\ ret = NoRet
    /\ pc = "idle"

Next ==
    \/ imported
    \/ func
    \/ compute_call
    \/ _on_tag
    \/ _on_eos
    \/ _on_error
    \/ loop_return
    \/ next_call

Spec == Init /\ [][Next]_vars

(***************************************************************************)
(* The command backend from its construction on: the configuration and the *)
(* installed executables vary, the plugin's options do not.                *)
(***************************************************************************)
TargetLevels == {FloatOfInt(ReferenceLevel), FloatOfInt(ReferenceLevel + 3),
                 FloatOfInt(ReferenceLevel - 3),
                 FloatOfInt(ReferenceLevel) - FloatUnit \div 2}

CommandInit ==
    /\ overwrite = FALSE
    /\ automatic = TRUE
    /\ backend_name = "command"
    /\ command = ""
    /\ format = [t \in Tracks |-> "MP3"]
    /\ album_items \in Albums
    /\ config_command \in {"", "/opt/rg/gain"}
    /\ installed \in SUBSET Commands
    /\ targetlevel \in TargetLevels
    /\ gain_offset = 0
    /\ rg_track_gain = [t \in Tracks |-> None]
    /\ rg_track_peak = [t \in Tracks |-> None]
    /\ rg_album_gain = [t \in Tracks |-> None]
    /\ rg_album_peak = [t \in Tracks |-> None]
    /\ album_rg_gain = None
    /\ album_rg_peak = None
    /\ files_ = << >>
    /\ file_ = 0
    /\ file_tags = None
    /\ pipe_state = "NULL"
    /\ call = NoCall
    /\ env = DefaultEnv
    /\ ops = << >>
    /\ ret = NoRet
    /\ pc = "new"

CommandNext ==
    \/ construct
    \/ compute_call
    \/ next_call

CommandSpec == CommandInit /\ [][CommandNext]_vars

(***************************************************************************)
(* The streaming backend alone, with the scheduling of its main loop: a    *)
(* file that plays ends in an end-of-stream or an error message, and       *)
(* run() returns once quit() has been called.                              *)
(***************************************************************************)
StreamInit ==
    /\ Init
    /\ backend_name = "gstreamer"
    /\ ~overwrite
    /\ automatic
    /\ rg_album_gain = [t \in Tracks |-> None]

StreamNext ==
    \/ compute_call
    \/ _on_tag
    \/ _on_eos
    \/ _on_error
    \/ loop_return
    \/ next_call

StreamSpec ==
    /\ StreamInit
    /\ [][StreamNext]_vars
    /\ WF_vars(_on_eos \/ _on_error)
    /\ WF_vars(loop_return)

(***************************************************************************)
(* What the claims speak of.                                               *)
(***************************************************************************)
HasOp(log, name) == \E i \in 1..Len(log) : log[i].op = name
IsPersist(e) == e.op \in {"store_album", "store_track", "write"}
Persists(log) == SelectSeq(log, IsPersist)
NoPersist(log) == Persists(log) = << >>

\* This step is a call being made (and not the caller going on).
CallStep == pc \in {"idle", "returned"} /\ pc' # "idle"

\* The format policy of the two tools, as the specification words it.
Unsupported(t) ==
    \/ command = "mp3gain" /\ format[t] # "MP3"
    \/ command = "aacgain" /\ format[t] \notin {"MP3", "AAC"}
AllSupported(items) == \A i \in 1..Len(items) : ~Unsupported(items[i])

\* C1: whenever the backend's AlbumGain has a track_gains count different
\* from the album's track count, handle_album makes no store call and no
\* item.write(), and leaves every rg_* field of the album and of its tracks
\* as it was.
C1_AlbumAllOrNothing ==
    [][(/\ pc' = "returned"
        /\ call'.op = "handle_album"
        /\ ret'.kind = "album"
        /\ Len(ret'.gains) # Len(album_items))
       => (NoPersist(ops') /\ UNCHANGED libvars)]_vars

\* C1 happens: an album with tagged tracks met a count mismatch.
C1_Witness ==
    /\ pc = "returned"
    /\ call.op = "handle_album"
    /\ ret.kind = "album"
    /\ ret.album_gain # None
    /\ Len(ret.gains) # Len(album_items)
    /\ \E t \in Tracks : rg_album_gain[t] # None

\* C2: when the tool of the command backend exits with a non-zero status
\* or its arguments fail to encode, handle_track and handle_album (on an
\* album whose tracks are all supported) log a warning, return without
\* raising and store nothing.
C2_ToolFailureIsNoResults ==
    (/\ pc = "returned"
     /\ backend_name = "command"
     /\ call.op \in {"handle_track", "handle_album"}
     /\ AllSupported(call.items)
     /\ HasOp(ops, "exec")
     /\ env.status \in {"exit", "encode"})
    => (HasOp(ops, "warn") /\ ~HasOp(ops, "raise") /\ NoPersist(ops))

\* C3: with overwrite off, a handle_track call made just after a
\* handle_track call on the same track has stored its gain and peak asks
\* the backend for nothing, stores nothing and writes nothing.
C3_SecondCallSkips ==
    [][(/\ CallStep
        /\ pc = "returned"
        /\ ~overwrite
        /\ call.op = "handle_track"
        /\ HasOp(ops, "store_track")
        /\ call' = call)
       => (~HasOp(ops', "compute") /\ NoPersist(ops'))]_vars

\* The backend succeeded: the tool exited with status 0 and printed its
\* header and a line per file (command backend); compute_track_gain
\* returned (streaming backend).
Succeeded ==
    IF backend_name = "command"
    THEN env.status = "ok" /\ env.shape \in {"full", "extra"}
    ELSE ret.kind # "raise"

\* C4: for a list of N supported tracks, when the backend succeeds,
\* compute_track_gain returns exactly N Gain values, the i-th the gain and
\* peak measured for the i-th track of the list.
C4_TrackGainsInInputOrder ==
    (/\ pc = "returned"
     /\ call.op \in {"compute_track_gain", "handle_track"}
     /\ HasOp(ops, "compute")
     /\ AllSupported(call.items)
     /\ Succeeded)
    => (/\ ret.kind = "list"
        /\ Len(ret.gains) = Len(call.items)
        /\ \A i \in 1..Len(call.items) :
              ret.gains[i] = Analysis(call.items[i], env.k))

\* C4 happens with the command backend: two tracks, two results.
C4_Witness ==
    /\ pc = "returned"
    /\ backend_name = "command"
    /\ call.op = "compute_track_gain"
    /\ Len(call.items) = NumTracks
    /\ HasOp(ops, "exec")
    /\ Succeeded
    /\ Len(ret.gains) = NumTracks
    /\ ret.gains[1] # ret.gains[2]

\* C4 happens with the streaming backend as well.
C4_WitnessStreaming ==
    /\ pc = "returned"
    /\ backend_name = "gstreamer"
    /\ call.op = "compute_track_gain"
    /\ Len(call.items) = NumTracks
    /\ Succeeded
    /\ Len(ret.gains) = NumTracks
    /\ ret.gains[1] # ret.gains[2]

\* C5: the command backend's compute_album_gain returns
\* AlbumGain(None, []) whenever a track of the album has a format the
\* executable does not support, and does not run the tool then.
C5_UnsupportedAlbumUnavailable ==
    (/\ pc = "returned"
     /\ backend_name = "command"
     /\ call.op \in {"compute_album_gain", "handle_album"}
     /\ HasOp(ops, "compute")
     /\ ~AllSupported(album_items))
    => (ret = RetAlbum(None, << >>) /\ ~HasOp(ops, "exec"))

\* C5 happens: aacgain and an album holding a FLAC track beside another.
C5_Witness ==
    /\ pc = "returned"
    /\ command = "aacgain"
    /\ call.op = "compute_album_gain"
    /\ Len(album_items) = NumTracks
    /\ \E i \in 1..Len(album_items) : format[album_items[i]] = "FLAC"
    /\ \E i \in 1..Len(album_items) : format[album_items[i]] # "FLAC"
    /\ ret = RetAlbum(None, << >>)

\* C6: a compute made while the queue left by an earlier call is not
\* empty fails before anything else: the pipeline is not started, the
\* queue is not replaced, the collected tags are not reset.
C6_ReentrancyGuard ==
    [][(/\ CallStep
        /\ backend_name = "gstreamer"
        /\ HasOp(ops', "compute")
        /\ Len(files_) # 0)
       => (/\ pc' = "returned"
           /\ ret'.kind = "raise"
           /\ ~HasOp(ops', "play")
           /\ UNCHANGED gstvars)]_vars

\* C6 happens: a call was refused over the queue an earlier batch left.
C6_Witness ==
    /\ pc = "returned"
    /\ backend_name = "gstreamer"
    /\ Len(files_) # 0
    /\ ops = <<Ev("compute", Len(call.items)), Ev("raise", 0)>>

\* C7: whenever the backend returns a list whose length is not 1,
\* handle_track warns and returns with no store, no write and the track's
\* rg_track_gain and rg_track_peak as they were.
C7_TrackCountGate ==
    [][(/\ pc' = "returned"
        /\ call'.op = "handle_track"
        /\ ret'.kind = "list"
        /\ Len(ret'.gains) # 1)
       => (/\ HasOp(ops', "warn")
           /\ ~HasOp(ops', "raise")
           /\ NoPersist(ops')
           /\ UNCHANGED <<rg_track_gain, rg_track_peak>>)]_vars

\* C7 happens: the track's format was filtered out by the command backend.
C7_Witness ==
    /\ pc = "returned"
    /\ call.op = "handle_track"
    /\ Unsupported(call.items[1])
    /\ ret = RetList(<< >>)
    /\ HasOp(ops, "warn")

\* A track of the album has no album gain or no album peak.
SomeAlbumFieldUnset ==
    \E i \in 1..Len(album_items) :
        \/ rg_album_gain[album_items[i]] = None
        \/ rg_album_peak[album_items[i]] = None

StoredTracks(log) ==
    {t \in Tracks : \E i \in 1..Len(log) : log[i] = Ev("store_track", t)}

\* C8: handle_album asks the backend if and only if overwrite is on or a
\* track of the album has an unset album gain or peak; a recomputation with
\* a complete result stores every track of the album; a skip does nothing.
C8_AlbumSkipPolicy ==
    [][(/\ CallStep
        /\ call'.op = "handle_album"
        /\ call'.entry = "import" => automatic)
       => (/\ HasOp(ops', "compute") <=> (overwrite \/ SomeAlbumFieldUnset)
           /\ ~HasOp(ops', "compute") => (NoPersist(ops') /\ UNCHANGED libvars)
           /\ (/\ pc' = "returned"
               /\ ret'.kind = "album"
               /\ Len(ret'.gains) = Len(album_items))
              => StoredTracks(ops') = {t \in Tracks : InAlbum(t)})]_vars

\* The stores and writes of a successful handle_album, from track i on.
RECURSIVE ExpectedPersists(_, _)
ExpectedPersists(write, i) ==
    IF i > Len(album_items) THEN << >>
    ELSE <<Ev("store_track", album_items[i])>>
         \o (IF write THEN <<Ev("write", album_items[i])>> ELSE << >>)
         \o ExpectedPersists(write, i + 1)

\* C9: a handle_album whose backend result has exactly N track gains makes
\* N+1 stores: the album's gain and peak first, then the i-th track of the
\* album with the i-th gain returned; a track is written only if the write
\* flag is on, and right after its store.
C9_AlbumStoreOrder ==
    (/\ pc = "returned"
     /\ call.op = "handle_album"
     /\ ret.kind = "album"
     /\ Len(ret.gains) = Len(album_items))
    => (/\ Persists(ops) = <<Ev("store_album", 0)>> \o ExpectedPersists(call.write, 1)
        /\ album_rg_gain = Some(ret.album_gain[1].gain)
        /\ album_rg_peak = Some(ret.album_gain[1].peak)
        /\ \A i \in 1..Len(album_items) :
              /\ rg_track_gain[album_items[i]] = Some(ret.gains[i].gain)
              /\ rg_track_peak[album_items[i]] = Some(ret.gains[i].peak))

\* C9 happens: an album of several tracks, stored and written.
C9_Witness ==
    /\ pc = "returned"
    /\ call.op = "handle_album"
    /\ call.write
    /\ Len(album_items) = NumTracks
    /\ Len(Persists(ops)) = 2 * NumTracks + 1
    /\ ret.gains[1] # ret.gains[2]

\* C10: with auto off the import stage asks the backend for nothing and
\* stores and writes nothing; with auto on it runs the handler of the
\* task, never with a write.
C10_ImportNeverWrites ==
    call.entry = "import"
    => (/\ ~HasOp(ops, "write")
        /\ ~automatic => (ops = << >> /\ ret = NoRet)
        /\ (automatic /\ pc = "returned")
           => (HasOp(ops, "skip") \/ HasOp(ops, "compute")))

\* C10 happens: an import with auto on stored a track's gain.
C10_Witness ==
    /\ pc = "returned"
    /\ call.entry = "import"
    /\ automatic
    /\ HasOp(ops, "store_track")

\* C11: with no command configured, construction settles on the first of
\* mp3gain, aacgain that is installed, passing over a name that is not
\* installed, and fails when neither is; with both installed it settles on
\* mp3gain.
C11_FirstInstalledCandidate ==
    (pc # "new" /\ config_command = "")
    => (/\ "mp3gain" \in installed
           => (pc # "failed" /\ command = "mp3gain")
        /\ ("mp3gain" \notin installed /\ "aacgain" \in installed)
           => (pc # "failed" /\ command = "aacgain")
        /\ ("mp3gain" \notin installed /\ "aacgain" \notin installed)
           => pc = "failed")

\* What the command backend made of the tool's text: the parsed list, put
\* together again when compute_album_gain has split it.
ParsedList ==
    IF ret.kind = "album" /\ ret.album_gain # None
    THEN ret.gains \o <<ret.album_gain[1]>>
    ELSE ret.gains

\* The text the tool printed for the call, and the number of lines asked of
\* parse_tool_output.
PrintedText ==
    ToolOutput(supported_items(call.items), IsAlbumOp(call.op), env)
ExpectedLines ==
    Len(supported_items(call.items)) + (IF IsAlbumOp(call.op) THEN 1 ELSE 0)

\* C12: the parsed list has an entry per expected line after the header, in
\* line order, its gain the line's tab field 2 and its peak the line's tab
\* field 3 divided by 32768 (16384 gives 0.5); lines past the expected
\* count are ignored, so the list is never longer than that count.
C12_ParsePositional ==
    (/\ pc = "returned"
     /\ backend_name = "command"
     /\ HasOp(ops, "exec")
     /\ env.status = "ok"
     /\ ret.kind \in {"list", "album"})
    => (/\ Len(ParsedList) <= ExpectedLines
        /\ env.shape \in {"full", "extra"} => Len(ParsedList) = ExpectedLines
        /\ \A i \in 1..Len(ParsedList) :
              /\ 2 * ParsedList[i].gain = PrintedText[i + 1][3] * FloatUnit
              /\ ParsedList[i].peak * PeakScale = PrintedText[i + 1][4] * FloatUnit
              /\ PrintedText[i + 1][4] = PeakScale \div 2
                 => 2 * ParsedList[i].peak = FloatUnit)

\* C12 happens: the tool printed a line more than asked for, after the
\* lines of several tracks with different values.
C12_Witness ==
    /\ pc = "returned"
    /\ backend_name = "command"
    /\ call.op = "compute_track_gain"
    /\ env.shape = "extra"
    /\ ret.kind = "list"
    /\ Len(ret.gains) = NumTracks
    /\ Len(PrintedText) > NumTracks + 2
    /\ ret.gains[1] # ret.gains[2]
    /\ \E i \in 1..NumTracks : 2 * ret.gains[i].peak = FloatUnit

\* C13: the offset derived at construction is targetlevel - 89 (92 gives 3,
\* the default 89 gives 0), and every run of the tool by the backend is
\* given that offset as its -d argument.
C13_GainOffset ==
    pc \notin {"new", "failed"}
    => (/\ targetlevel = FloatOfInt(92) => gain_offset = 3
        /\ targetlevel = FloatOfInt(89) => gain_offset = 0
        /\ targetlevel % FloatUnit = 0
           => FloatOfInt(gain_offset) = targetlevel - FloatOfInt(89)
        /\ FloatOfInt(gain_offset) - (targetlevel - FloatOfInt(89)) < FloatUnit
        /\ (targetlevel - FloatOfInt(89)) - FloatOfInt(gain_offset) < FloatUnit
        /\ \A i \in 1..Len(ops) :
              /\ ops[i].op = "exec" => (i > 1 /\ ops[i - 1] = Ev("-d", gain_offset))
              /\ ops[i].op = "-d" => ops[i].arg = gain_offset)

\* C13 happens: a backend built for target level 92 ran the tool.
C13_Witness ==
    /\ pc = "returned"
    /\ targetlevel = FloatOfInt(92)
    /\ gain_offset = 3
    /\ HasOp(ops, "exec")
    /\ ret.kind = "list"
    /\ Len(ret.gains) = NumTracks

\* C19: every AlbumGain the command backend's compute_album_gain returns
\* is either the unavailable value (None, no track gains) or has as many
\* track gains as the album has tracks and, as album gain, what the tool's
\* aggregate line says; whatever the tool printed.
C19_AlbumGainShape ==
    (/\ pc = "returned"
     /\ backend_name = "command"
     /\ IsAlbumOp(call.op)
     /\ ret.kind = "album")
    => (\/ ret = RetAlbum(None, << >>)
        \/ /\ Len(ret.gains) = Len(album_items)
           /\ ret.album_gain = Some(Analysis(0, env.k)))

IsPlay(e) == e.op = "play"
\* The files the pipeline was set to play, in the order it was.
PlayedFiles(log) ==
    LET p == SelectSeq(log, IsPlay) IN [i \in 1..Len(p) |-> p[i].arg]
ItemSet(items) == {items[i] : i \in 1..Len(items)}

\* C14: in a batch the files become the current file in input order, each
\* once, a next one only when the current one has ended (the step that
\* starts it takes the head of the queue and is no error); an
\* end-of-stream quits the loop only on an empty queue, with the pipeline
\* in NULL, and the same call made again is then accepted.
C14_FileSequencing ==
    [][/\ (backend_name = "gstreamer" /\ pc' \in {"loop", "quit"})
          => (/\ PlayedFiles(ops') \o files_' = call'.items
              /\ file_' = PlayedFiles(ops')[Len(PlayedFiles(ops'))])
       /\ (pc = "loop" /\ file_' # file_)
          => (/\ file_' = Head(files_)
              /\ files_' = Tail(files_)
              /\ ops' = Append(ops, Ev("play", file_'))
              /\ pc' = "loop")
       /\ (pc = "loop" /\ pc' = "quit" /\ ~HasOp(ops', "error"))
          => (files_ = << >> /\ files_' = << >> /\ pipe_state' = "NULL")
       /\ (/\ CallStep
           /\ pc = "returned"
           /\ HasOp(ops, "play")
           /\ ~HasOp(ops, "error")
           /\ HasOp(ops', "compute"))
          => (files_ = << >> /\ pipe_state = "NULL" /\ pc' = "loop")]_vars

\* C14 happens: a batch of several files was played through to its end.
C14_Witness ==
    /\ pc = "quit"
    /\ ~HasOp(ops, "error")
    /\ Len(call.items) = NumTracks
    /\ PlayedFiles(ops) = call.items
    /\ call.items[1] # call.items[NumTracks]

\* C15: when every file that plays ends in an end-of-stream or an error,
\* a compute that has started its loop returns to its caller; a compute on
\* an empty list returns at once and starts neither pipeline nor loop.
C15_BatchTerminates ==
    /\ (pc = "loop") ~> (pc = "returned")
    /\ [][(/\ CallStep
            /\ HasOp(ops', "compute")
            /\ call'.items = << >>
            /\ files_ = << >>)
           => (/\ pc' = "returned"
               /\ ~HasOp(ops', "play")
               /\ UNCHANGED <<pipe_state, file_>>)]_vars

\* C15 happens: the loop ran over several files and the call returned.
C15_Witness ==
    /\ pc = "returned"
    /\ Len(call.items) = NumTracks
    /\ PlayedFiles(ops) = call.items

\* C16: an error message sets the pipeline to NULL and quits the loop with
\* no further file started; the call of its batch returns no Gain result;
\* and the backend then refuses the call made next.
C16_ErrorAbortsBatch ==
    [][/\ (pc = "loop" /\ HasOp(ops', "error"))
          => (/\ pipe_state' = "NULL"
              /\ pc' = "quit"
              /\ PlayedFiles(ops') = PlayedFiles(ops)
              /\ UNCHANGED <<files_, file_>>)
       /\ (pc' = "returned" /\ HasOp(ops', "error")) => ret'.kind = "raise"
       /\ (/\ CallStep
           /\ pc = "returned"
           /\ HasOp(ops, "error")
           /\ HasOp(ops', "compute"))
          => (pc' = "returned" /\ ret'.kind = "raise")]_vars

\* C17: the streaming backend returns a result only when the number of
\* files it holds tags for equals the number of input files, and then a
\* Gain per input file from that file's tags; an album's gain and peak are
\* the ALBUM_GAIN and ALBUM_PEAK held for the last input file.
C17_TagCountCheck ==
    (/\ pc = "returned"
     /\ backend_name = "gstreamer"
     /\ HasOp(ops, "compute")
     /\ ret.kind \in {"list", "album"})
    => (/\ file_tags # None
        /\ Cardinality(DOMAIN file_tags[1]) = Len(call.items)
        /\ Len(ret.gains) = Len(call.items)
        /\ \A i \in 1..Len(call.items) :
              /\ call.items[i] \in DOMAIN file_tags[1]
              /\ ret.gains[i] = Gain(file_tags[1][call.items[i]]["TRACK_GAIN"],
                                     file_tags[1][call.items[i]]["TRACK_PEAK"])
        /\ ret.kind = "album"
           => LET last_tags == file_tags[1][call.items[Len(call.items)]]
              IN  /\ ret.album_gain = Some(Gain(last_tags["ALBUM_GAIN"],
                                                last_tags["ALBUM_PEAK"]))
                  /\ ret.album_gain = Some(Analysis(0, env.k)))

\* C17 happens: an album of several files, each with its tags.
C17_Witness ==
    /\ pc = "returned"
    /\ backend_name = "gstreamer"
    /\ call.op = "compute_album_gain"
    /\ ret.kind = "album"
    /\ Len(ret.gains) = NumTracks
    /\ ret.gains[1] # ret.gains[2]

\* C17 happens the other way too: a file of the batch got no tags and the
\* call failed.
C17_WitnessUntagged ==
    /\ pc = "returned"
    /\ backend_name = "gstreamer"
    /\ PlayedFiles(ops) = call.items
    /\ ~HasOp(ops, "error")
    /\ Len(call.items) = NumTracks
    /\ Cardinality(DOMAIN file_tags[1]) = NumTracks - 1
    /\ ret.kind = "raise"

\* C18: once a compute has been accepted, the tags the backend holds are
\* those of that batch's files alone, and an empty batch of
\* compute_track_gain, which has no file and no tag, gives the empty list.
C18_TagsPerBatch ==
    (/\ pc = "returned"
     /\ backend_name = "gstreamer"
     /\ HasOp(ops, "compute")
     /\ HasOp(ops, "play") \/ files_ = << >>
     /\ file_tags # None)
    => (/\ DOMAIN file_tags[1] \subseteq ItemSet(call.items)
        /\ (call.op = "compute_track_gain" /\ call.items = << >>)
           => ret = RetList(<< >>))

====
